---------------------------- MODULE Spec2Model ----------------------------
(***************************************************************************)
(* Glade Desk (src/src/lib.rs): the per-frame signal path of the plugin,   *)
(* GladeDesk::process, with the host calls that surround it (initialize,   *)
(* reset, the editor being opened and closed, the dry/wet value being      *)
(* written).                                                               *)
(*                                                                         *)
(* Numbers.  The code computes in f32.  The model computes in exact        *)
(* rationals <<n, d>> (d > 0, lowest terms): rounding, infinities and NaN  *)
(* are not modelled.  TLC's integers are 32 bits wide, so the two denormal *)
(* constants of process (1.18e-23 and 0.1 * 1.18e-17) cannot be written    *)
(* with their magnitudes; they are scaled up, keeping their order          *)
(*     0 < sub-threshold input < threshold < floor < regular samples.      *)
(* sin and the dB conversions are tabulated on the values the model feeds  *)
(* them.                                                                   *)
(***************************************************************************)
EXTENDS Integers, Sequences, FiniteSets, TLC

(***************************************************************************)
(* f32 arithmetic, as exact rational arithmetic.                           *)
(***************************************************************************)
RECURSIVE GCD(_, _)
GCD(a, b) ==
    IF b = 0 THEN a ELSE GCD(b, a % b)

IAbs(n) ==
    IF n < 0 THEN -n ELSE n

Norm(n, d) ==
    LET g == GCD(IAbs(n), d)
    IN  <<n \div g, d \div g>>

Zero ==
    <<0, 1>>

One ==
    <<1, 1>>

RInt(k) ==
    <<k, 1>>

RNeg(x) ==
    <<-x[1], x[2]>>

RAbs(x) ==
    <<IAbs(x[1]), x[2]>>

RMul(x, y) ==
    LET g1 == GCD(IAbs(x[1]), y[2])
        g2 == GCD(IAbs(y[1]), x[2])
    IN  <<(x[1] \div g1) * (y[1] \div g2), (x[2] \div g2) * (y[2] \div g1)>>

RAdd(x, y) ==
    LET g == GCD(x[2], y[2])
        l == (x[2] \div g) * y[2]
    IN  Norm(x[1] * (l \div x[2]) + y[1] * (l \div y[2]), l)

RSub(x, y) ==
    RAdd(x, RNeg(y))

RLt(x, y) ==
    RSub(x, y)[1] < 0

RGt(x, y) ==
    RLt(y, x)

RDivInt(x, k) ==
    RMul(x, <<1, k>>)

(***************************************************************************)
(* Constants of the program.                                               *)
(***************************************************************************)
\* const PEAK_METER_DECAY_MS: f64 = 100.0
PEAK_METER_DECAY_MS ==
    100

\* nih_plug's util::MINUS_INFINITY_DB, the value both meters are built with
MINUS_INFINITY_DB ==
    -100

\* the depth of left_vec and right_vec (eight 0.0 entries at construction)
HistoryDepth ==
    8

\* if in_l.abs() < 1.18e-23: the threshold, scaled (see the header)
DenormThreshold ==
    <<1, 64>>

\* in_l = 0.1 * 1.18e-17: the floor value, scaled (see the header)
DenormFloor ==
    <<1, 8>>

\* (in_l * 1.2).sin(): the drive constant
Drive ==
    <<6, 5>>

(***************************************************************************)
(* Conversions.                                                            *)
(***************************************************************************)
\* util::gain_to_db and util::db_to_gain on the 6 dB grid (20*log10(2) = 6.02
\* is tabulated as 6): each row is <<gain, dB>>.
GainDbTable ==
    { <<(<<1, 4>>), -12>>, <<(<<1, 2>>), -6>>, <<One, 0>>,
      <<(<<2, 1>>), 6>>, <<(<<4, 1>>), 12>> }

GainToDb(g) ==
    (CHOOSE row \in GainDbTable : row[1] = g)[2]

DbToGain(db) ==
    IF db > MINUS_INFINITY_DB
    THEN (CHOOSE row \in GainDbTable : row[2] = db)[1]
    ELSE Zero

\* sin(1.2 * x), x the sample before the multiplication by 1.2.  At and below
\* the floor sin(y) = y to every digit an f32 holds; above it the value is
\* tabulated to the nearest 1/16: sin(0.3) = 0.2955, sin(0.6) = 0.5646,
\* sin(1.2) = 0.9320, sin(2.4) = 0.6755, sin(4.8) = -0.9962.  sin is odd.
SinTable(a) ==
    CASE a = <<1, 4>> -> <<5, 16>>
      [] a = <<1, 2>> -> <<9, 16>>
      [] a = <<1, 1>> -> <<15, 16>>
      [] a = <<2, 1>> -> <<11, 16>>
      [] a = <<4, 1>> -> <<-1, 1>>

SinDrive(x) ==
    IF ~RLt(DenormFloor, RAbs(x))
    THEN RMul(x, Drive)
    ELSE IF x[1] < 0 THEN RNeg(SinTable(RAbs(x))) ELSE SinTable(RAbs(x))

\* (buffer_config.sample_rate as f64 * PEAK_METER_DECAY_MS / 1000.0).recip():
\* the exponent as <<n, d>>; d = 0 is +infinity, the reciprocal of 0.0.
DecayExponent(rate) ==
    LET x == Norm(rate * PEAK_METER_DECAY_MS, 1000)
    IN  IF x[1] < 0 THEN <<-x[2], -x[1]>> ELSE <<x[2], x[1]>>

\* 0.25f64.powf(e) for the exponents e = p/2 the model's sample rates give;
\* 0.25 to the power +infinity is 0, and 0.25^(1/4) = 0.7071 is tabulated to
\* the nearest 1/16.
QuarterPow(e) ==
    IF e[2] = 0 THEN Zero
    ELSE IF e = <<1, 4>> THEN <<11, 16>>
    ELSE LET p == (2 * e[1]) \div e[2]
         IN  IF p >= 0 THEN <<1, 2 ^ p>> ELSE <<2 ^ (-p), 1>>

DecayWeight(rate) ==
    QuarterPow(DecayExponent(rate))

(***************************************************************************)
(* The steps of one frame of process, in the order of the code.            *)
(***************************************************************************)
\* gain = gain_to_db(free_gain.smoothed.next()); in_l *= db_to_gain(gain)
Gained(x, free_gain) ==
    RMul(x, DbToGain(GainToDb(free_gain)))

\* if in_l.abs() < 1.18e-23 { in_l = 0.1 * 1.18e-17 }
DenormGuard(x) ==
    IF RLt(RAbs(x), DenormThreshold) THEN DenormFloor ELSE x

\* Waveshape with the two weights exchanged
WaveshapeSwapped(x, push_amount) ==
    RAdd(RMul(push_amount, x), RMul(RSub(One, push_amount), SinDrive(x)))

\* (1.0 - push_amount) * in_l + push_amount * ((in_l * 1.2).sin())
Waveshape(x, push_amount) ==
    RAdd(RMul(RSub(One, push_amount), x), RMul(push_amount, SinDrive(x)))

\* ShiftIn with the ends exchanged: push_back, pop_front
ShiftInBack(vec, x) ==
    SubSeq(vec \o <<x>>, 2, Len(vec) + 1)

\* left_vec.push_front(processed_sample_l); left_vec.pop_back()
ShiftIn(vec, x) ==
    SubSeq(<<x>> \o vec, 1, Len(vec))

\* TapTerm with the multiplier added to the coefficient, not multiplied
TapTermAdded(vec, i, p) ==
    LET h == vec[i + 1]
        c == p.coeff[i + 1]
        s == p.skew[i + 1]
        m == p.multiplier
    IN  RMul(h, RAdd(RAdd(c, m), RMul(RMul(s, m), RAbs(h))))

\* left_vec[i] * (coeff * multiplier + skew * multiplier * left_vec[i].abs()),
\* i counted from 0 as in the code
TapTerm(vec, i, p) ==
    LET h == vec[i + 1]
        c == p.coeff[i + 1]
        s == p.skew[i + 1]
        m == p.multiplier
    IN  RMul(h, RAdd(RMul(c, m), RMul(RMul(s, m), RAbs(h))))

\* TapSum with strictly alternating signs: the term of index 1 subtracted
TapSumAlternating(vec, p) ==
    LET t0 == RAdd(Zero, TapTerm(vec, 0, p))
        t1 == RSub(t0, TapTerm(vec, 1, p))
        t2 == RAdd(t1, TapTerm(vec, 2, p))
        t3 == RSub(t2, TapTerm(vec, 3, p))
        t4 == RAdd(t3, TapTerm(vec, 4, p))
        t5 == RSub(t4, TapTerm(vec, 5, p))
        t6 == RAdd(t5, TapTerm(vec, 6, p))
    IN  RSub(t6, TapTerm(vec, 7, p))

\* temp_l: 0.0, then += / -= of the eight terms
TapSum(vec, p) ==
    LET t0 == RAdd(Zero, TapTerm(vec, 0, p))
        t1 == RAdd(t0, TapTerm(vec, 1, p))
        t2 == RSub(t1, TapTerm(vec, 2, p))
        t3 == RAdd(t2, TapTerm(vec, 3, p))
        t4 == RSub(t3, TapTerm(vec, 4, p))
        t5 == RAdd(t4, TapTerm(vec, 5, p))
        t6 == RSub(t5, TapTerm(vec, 6, p))
    IN  RAdd(t6, TapTerm(vec, 7, p))

\* DryWetMix with the tap sum added in full, whatever the dry/wet value
DryWetMixFull(in, tap, wet_gain) ==
    RAdd(in, tap)

\* processed_sample_l = in_l + processed_sample_l * wet_gain
DryWetMix(in, tap, wet_gain) ==
    RAdd(in, RMul(tap, wet_gain))

\* (in_amplitude / num_samples as f32).abs()
Amplitude(sum, num_samples) ==
    RAbs(RDivInt(sum, num_samples))

\* MeterUpdate whose release forgets the instantaneous amplitude
MeterUpdateDecayOnly(current, amplitude, weight) ==
    IF RGt(amplitude, current)
    THEN amplitude
    ELSE RMul(current, weight)

\* MeterUpdate whose release never moves the stored value
MeterUpdateHold(current, amplitude, weight) ==
    IF RGt(amplitude, current)
    THEN amplitude
    ELSE current

\* new_in_meter / new_out_meter
MeterUpdate(current, amplitude, weight) ==
    IF RGt(amplitude, current)
    THEN amplitude
    ELSE RAdd(RMul(current, weight), RMul(amplitude, RSub(One, weight)))

(***************************************************************************)
(* The parameters (GladeDeskParams::default) and their smoothers.  The     *)
(* declarations are this source's; set_target and next are the parameter   *)
(* smoother's contract: a target is clamped into the range, a linear ramp  *)
(* moves by a constant increment, a logarithmic ramp by a constant number  *)
(* of dB, and both end on the target after the frames that cover the time  *)
(* constant.  A logarithmic ramp is tabulated on the 6 dB grid of          *)
(* GainDbTable.                                                            *)
(***************************************************************************)
CoeffNames ==
    <<"slider_1_coeff", "slider_2_coeff", "slider_3_coeff", "slider_4_coeff",
      "slider_5_coeff", "slider_6_coeff", "slider_7_coeff", "slider_8_coeff">>

SkewNames ==
    <<"slider_1_skew", "slider_2_skew", "slider_3_skew", "slider_4_skew",
      "slider_5_skew", "slider_6_skew", "slider_7_skew", "slider_8_skew">>

\* The smoothers process calls next() on, lines 692-712; dry_wet is read
\* with value() and is not among them.
Advanced ==
    {"free_gain", "output_gain", "push_amount", "multiplier"}
        \cup {CoeffNames[i] : i \in 1..8} \cup {SkewNames[i] : i \in 1..8}

\* every FloatParam declared with_smoother
Smoothers ==
    Advanced \cup {"dry_wet"}

\* ParamRange with the sliders' range declared as [-1, 1]
ParamRangeWideSliders(name) ==
    CASE name \in {"free_gain", "output_gain"} -> <<DbToGain(-12), DbToGain(12)>>
      [] name \in {"push_amount", "dry_wet"} -> <<Zero, One>>
      [] name = "multiplier" -> <<One, RInt(10)>>
      [] OTHER -> <<RNeg(One), One>>

\* FloatRange { min, max } of each parameter, as <<min, max>>
ParamRange(name) ==
    CASE name \in {"free_gain", "output_gain"} -> <<DbToGain(-12), DbToGain(12)>>
      [] name \in {"push_amount", "dry_wet"} -> <<Zero, One>>
      [] name = "multiplier" -> <<One, RInt(10)>>
      [] OTHER -> <<(<<-1, 2>>), (<<1, 2>>)>>

\* the default value each FloatParam is built with
ParamDefault(name) ==
    CASE name \in {"free_gain", "output_gain"} -> DbToGain(0)
      [] name \in {"multiplier", "dry_wet"} -> One
      [] OTHER -> Zero

\* SmoothingStyle::Logarithmic for the two gains, SmoothingStyle::Linear for
\* the others
SmoothingLaw(name) ==
    IF name \in {"free_gain", "output_gain"} THEN "logarithmic" ELSE "linear"

\* the time constant of the smoothing style, in milliseconds
SmoothingMs(name) ==
    IF name \in {"output_gain", "dry_wet"} THEN 50 ELSE 30

\* the frames that cover ms milliseconds at a sample rate
NumSteps(ms, rate) ==
    (ms * rate + 999) \div 1000

\* value clamped into <<min, max>>
Clamp(v, range) ==
    IF RLt(v, range[1]) THEN range[1]
    ELSE IF RGt(v, range[2]) THEN range[2]
    ELSE v

\* set_target: the clamped value becomes the target and the ramp restarts
\* from the current value; with no frame to ramp over the value is the target
\* at once.
SetTargetOf(s, name, v, rate) ==
    LET t == Clamp(v, ParamRange(name))
        n == NumSteps(SmoothingMs(name), rate)
    IN  [target |-> t, current |-> IF n = 0 THEN t ELSE s.current, steps_left |-> n]

\* one step of a linear ramp: a constant increment
LinearStep(current, target, steps_left) ==
    RAdd(current, RDivInt(RSub(target, current), steps_left))

\* one step of a logarithmic ramp: a constant number of dB, on the 6 dB grid
\* and rounded toward the target
LogarithmicStep(current, target, steps_left) ==
    LET from == GainToDb(current) \div 6
        to == GainToDb(target) \div 6
        d == IAbs(to - from)
        k == (d + steps_left - 1) \div steps_left
    IN  DbToGain(6 * (IF to < from THEN from - k ELSE from + k))

\* next(): the last step lands on the target exactly; afterwards the value
\* stays there
SmootherNext(s, name) ==
    IF s.steps_left = 0 THEN [s EXCEPT !.current = s.target]
    ELSE IF s.steps_left = 1 THEN [s EXCEPT !.current = s.target, !.steps_left = 0]
    ELSE [s EXCEPT !.current =
                       IF SmoothingLaw(name) = "linear"
                       THEN LinearStep(s.current, s.target, s.steps_left)
                       ELSE LogarithmicStep(s.current, s.target, s.steps_left),
                   !.steps_left = s.steps_left - 1]

\* NextAll with the smoothers left where they are: the frame reads the value
\* of the frame before
NextAllStale(sm) ==
    sm

\* lines 692-712: next() on each smoother of Advanced, once
NextAll(sm) ==
    [n \in DOMAIN sm |-> IF n \in Advanced THEN SmootherNext(sm[n], n) ELSE sm[n]]

\* the calls of next() a frame makes on a smoother
AdvanceCount(name) ==
    IF name \in Advanced THEN 1 ELSE 0

\* the values of lines 692-712, as the frame uses them
PipelineValues(sm) ==
    [free_gain |-> sm["free_gain"].current,
     output_gain |-> sm["output_gain"].current,
     push_amount |-> sm["push_amount"].current,
     multiplier |-> sm["multiplier"].current,
     coeff |-> [i \in 1..8 |-> sm[CoeffNames[i]].current],
     skew |-> [i \in 1..8 |-> sm[SkewNames[i]].current]]

\* the smoothers at construction: at rest on the default value
DefaultSmoothers ==
    [n \in Smoothers |->
        [target |-> ParamDefault(n), current |-> ParamDefault(n), steps_left |-> 0]]

(***************************************************************************)
(* State.                                                                  *)
(***************************************************************************)
VARIABLES
    left_vec,                \* GladeDesk.left_vec, index 0 first
    right_vec,               \* GladeDesk.right_vec
    in_meter,                \* GladeDesk.in_meter (AtomicF32)
    out_meter,               \* GladeDesk.out_meter (AtomicF32)
    out_meter_decay_weight,  \* GladeDesk.out_meter_decay_weight
    dry_wet,                 \* params.dry_wet.value(), the plain value
    editor_open,             \* params.editor_state.is_open()
    layout,                  \* channels of the buffers the host hands over; 0 before initialize
    sample_rate,             \* buffer_config.sample_rate of the last initialize
    panicked,                \* an unwrap() of None has unwound process
    frames,                  \* frames that went through the history, since construction
    pushed_l,                \* the samples pushed to left_vec, oldest first
    pushed_r,                \* the samples pushed to right_vec, oldest first
    impulse,                 \* the amplitude of the last attack of in_meter, while only silence followed
    silent,                  \* the metered silent frames since that attack
    last,                    \* the most recent call, what it read and what it wrote
    smooth,                  \* each parameter's smoother: target, current value, steps left
    since,                   \* frames since each parameter's target was last set
    sets,                    \* targets set since construction
    seen,                    \* what the editor's drawing loaded from in_meter and out_meter
    display_pc               \* where the editor's drawing stands between its two loads

vars ==
    <<left_vec, right_vec, in_meter, out_meter, out_meter_decay_weight, dry_wet,
      editor_open, layout, sample_rate, panicked, frames, pushed_l, pushed_r,
      impulse, silent, last, smooth, since, sets, seen, display_pc>>

smootherVars ==
    <<smooth, since, sets>>

displayVars ==
    <<seen, display_pc>>

Zeros ==
    [i \in 1..HistoryDepth |-> Zero]

NoImpulse ==
    <<0, 0>>

\* nothing loaded from a meter yet
NotLoaded ==
    <<0, 0>>

\* The values the smoothers hold at construction (GladeDeskParams::default).
DefaultSmoothed ==
    [free_gain |-> One, output_gain |-> One, push_amount |-> Zero,
     multiplier |-> One, coeff |-> Zeros, skew |-> Zeros]

Blank ==
    [op |-> "new", ret |-> TRUE, rate |-> 0, channels |-> 0, prevWeight |-> One,
     raw |-> <<Zero, Zero>>, p |-> DefaultSmoothed, gained |-> <<Zero, Zero>>,
     guarded |-> <<Zero, Zero>>, shaped |-> <<Zero, Zero>>, tap |-> <<Zero, Zero>>,
     out |-> <<Zero, Zero>>, written |-> 0, dryWet |-> One, metered |-> FALSE,
     inAmp |-> Zero, outAmp |-> Zero, prevIn |-> Zero, prevOut |-> Zero,
     weight |-> One, name |-> "", requested |-> Zero,
     advanced |-> [n \in Smoothers |-> 0], stores |-> <<0, 0>>]

\* GladeDesk::default
Init ==
    /\ left_vec = Zeros
    /\ right_vec = Zeros
    /\ in_meter = RInt(MINUS_INFINITY_DB)
    /\ out_meter = RInt(MINUS_INFINITY_DB)
    /\ out_meter_decay_weight = One
    /\ dry_wet = One
    /\ editor_open = FALSE
    /\ layout = 0
    /\ sample_rate = 0
    /\ panicked = FALSE
    /\ frames = 0
    /\ pushed_l = <<>>
    /\ pushed_r = <<>>
    /\ impulse = NoImpulse
    /\ silent = 0
    /\ last = Blank
    /\ smooth = DefaultSmoothers
    /\ since = [n \in Smoothers |-> 0]
    /\ sets = 0
    /\ seen = <<NotLoaded, NotLoaded>>
    /\ display_pc = "idle"

(***************************************************************************)
(* The host's calls.                                                       *)
(***************************************************************************)
\* GladeDesk::initialize: the layout is ignored, the decay weight is set and
\* true is returned, whatever the sample rate.
Initialize(layouts, rates) ==
    /\ ~panicked
    /\ \E ch \in layouts, sr \in rates :
        /\ out_meter_decay_weight' = DecayWeight(sr)
        /\ layout' = ch
        /\ sample_rate' = sr
        /\ last' = [Blank EXCEPT !.op = "initialize", !.ret = TRUE, !.rate = sr,
                                 !.channels = ch,
                                 !.prevWeight = out_meter_decay_weight,
                                 !.weight = DecayWeight(sr)]
    /\ impulse' = NoImpulse
    /\ silent' = 0
    /\ UNCHANGED <<left_vec, right_vec, in_meter, out_meter, dry_wet, editor_open,
                   panicked, frames, pushed_l, pushed_r>>
    /\ UNCHANGED <<smootherVars, displayVars>>

\* GladeDesk::reset: fn reset(&mut self) {}
Reset ==
    /\ ~panicked
    /\ layout # 0
    /\ last' = [Blank EXCEPT !.op = "reset", !.rate = sample_rate,
                             !.channels = layout,
                             !.prevWeight = out_meter_decay_weight,
                             !.weight = out_meter_decay_weight]
    /\ UNCHANGED <<left_vec, right_vec, in_meter, out_meter, out_meter_decay_weight,
                   dry_wet, editor_open, layout, sample_rate, panicked, frames,
                   pushed_l, pushed_r, impulse, silent>>
    /\ UNCHANGED <<smootherVars, displayVars>>

\* GladeDesk::editor: the editor is spawned, editor_state.is_open() turns true
OpenEditor ==
    /\ ~panicked
    /\ ~editor_open
    /\ editor_open' = TRUE
    /\ last' = [Blank EXCEPT !.op = "open_editor"]
    /\ UNCHANGED <<left_vec, right_vec, in_meter, out_meter, out_meter_decay_weight,
                   dry_wet, layout, sample_rate, panicked, frames, pushed_l,
                   pushed_r, impulse, silent>>
    /\ UNCHANGED <<smootherVars, displayVars>>

\* the editor is closed, editor_state.is_open() turns false
CloseEditor ==
    /\ ~panicked
    /\ editor_open
    /\ display_pc = "idle"
    /\ editor_open' = FALSE
    /\ last' = [Blank EXCEPT !.op = "close_editor"]
    /\ UNCHANGED <<left_vec, right_vec, in_meter, out_meter, out_meter_decay_weight,
                   dry_wet, layout, sample_rate, panicked, frames, pushed_l,
                   pushed_r, impulse, silent>>
    /\ UNCHANGED <<smootherVars, displayVars>>

\* the host or the editor's knob writes params.dry_wet: the plain value that
\* line 713 reads (the smoothers are followed by SetTarget and ProcessSmoothed)
SetDryWet(values) ==
    /\ ~panicked
    /\ \E v \in values :
        /\ v # dry_wet
        /\ dry_wet' = v
    /\ last' = [Blank EXCEPT !.op = "set_dry_wet"]
    /\ UNCHANGED <<left_vec, right_vec, in_meter, out_meter, out_meter_decay_weight,
                   editor_open, layout, sample_rate, panicked, frames, pushed_l,
                   pushed_r, impulse, silent, smootherVars, displayVars>>

(***************************************************************************)
(* GladeDesk::process, one frame of the buffer.  raw is the frame's        *)
(* samples <<left, right>>; p holds what the smoothers' next() returned    *)
(* for this frame.  The ramps are nih_plug's, not this source's: a frame   *)
(* draws p from the values of the parameters' ranges the model uses.       *)
(***************************************************************************)
\* The frame of StereoFrame with one step changed: the tap sums taken before
\* the histories are shifted (sumFirst), the meters updated on gate and not on
\* the editor being open, the right tap sum reading the left history
\* (crossed).
StereoFrameVariant(raw, p, sumFirst, gate, crossed) ==
    \E in \in {<<Gained(raw[1], p.free_gain), Gained(raw[2], p.free_gain)>>} :
    \E g \in {<<DenormGuard(in[1]), DenormGuard(in[2])>>} :
    \E s \in {<<Waveshape(g[1], p.push_amount), Waveshape(g[2], p.push_amount)>>} :
    \E vec \in {<<ShiftIn(left_vec, s[1]), ShiftIn(right_vec, s[2])>>} :
    \E temp \in {<<TapSum(IF sumFirst THEN left_vec ELSE vec[1], p),
                  TapSum(IF sumFirst THEN right_vec
                         ELSE IF crossed THEN vec[1] ELSE vec[2], p)>>} :
    \E o \in {<<RMul(DryWetMix(g[1], temp[1], dry_wet), p.output_gain),
                RMul(DryWetMix(g[2], temp[2], dry_wet), p.output_gain)>>} :
    \E num_samples \in {layout} :
    \E in_amplitude \in {Amplitude(RAdd(in[1], in[2]), num_samples)} :
    \E out_amplitude \in {Amplitude(RAdd(o[1], o[2]), num_samples)} :
        /\ left_vec' = vec[1]
        /\ right_vec' = vec[2]
        /\ frames' = frames + 1
        /\ pushed_l' = Append(pushed_l, s[1])
        /\ pushed_r' = Append(pushed_r, s[2])
        /\ IF gate
           THEN /\ in_meter' = MeterUpdate(in_meter, in_amplitude,
                                           out_meter_decay_weight)
                /\ out_meter' = MeterUpdate(out_meter, out_amplitude,
                                            out_meter_decay_weight)
                /\ IF RGt(in_amplitude, in_meter)
                   THEN /\ impulse' = in_amplitude
                        /\ silent' = 0
                   ELSE IF in_amplitude = Zero /\ impulse # NoImpulse
                   THEN /\ impulse' = impulse
                        /\ silent' = silent + 1
                   ELSE /\ impulse' = NoImpulse
                        /\ silent' = 0
           ELSE /\ UNCHANGED <<in_meter, out_meter>>
                /\ impulse' = NoImpulse
                /\ silent' = 0
        /\ last' = [Blank EXCEPT !.op = "process", !.rate = sample_rate,
                                 !.channels = layout, !.raw = raw, !.p = p,
                                 !.gained = in, !.guarded = g, !.shaped = s,
                                 !.tap = temp, !.out = o, !.written = 2,
                                 !.dryWet = dry_wet, !.metered = gate,
                                 !.inAmp = IF gate THEN in_amplitude ELSE Zero,
                                 !.outAmp = IF gate THEN out_amplitude ELSE Zero,
                                 !.prevIn = in_meter, !.prevOut = out_meter,
                                 !.prevWeight = out_meter_decay_weight,
                                 !.weight = out_meter_decay_weight,
                                 !.advanced = [n \in Smoothers |-> AdvanceCount(n)],
                                 !.stores = IF gate THEN <<1, 1>> ELSE <<0, 0>>]
        /\ UNCHANGED <<out_meter_decay_weight, dry_wet, editor_open, layout,
                       sample_rate, panicked>>

\* StereoFrame with the tap sums taken before the shaped samples are pushed
StereoFrameSumFirst(raw, p) ==
    StereoFrameVariant(raw, p, TRUE, editor_open, FALSE)

\* StereoFrame with the meters updated whether or not the editor is open
StereoFrameAlwaysMetered(raw, p) ==
    StereoFrameVariant(raw, p, FALSE, TRUE, FALSE)

\* StereoFrame with the right channel's tap sum reading left_vec
StereoFrameCrossed(raw, p) ==
    StereoFrameVariant(raw, p, FALSE, editor_open, TRUE)

\* A buffer of two channels: lines 686-847.  Each stage is bound once
\* (\E over a one-element set) and named as in the code.
StereoFrame(raw, p) ==
    \E in \in {<<Gained(raw[1], p.free_gain), Gained(raw[2], p.free_gain)>>} :
    \E g \in {<<DenormGuard(in[1]), DenormGuard(in[2])>>} :
    \E s \in {<<Waveshape(g[1], p.push_amount), Waveshape(g[2], p.push_amount)>>} :
    \E vec \in {<<ShiftIn(left_vec, s[1]), ShiftIn(right_vec, s[2])>>} :
    \E temp \in {<<TapSum(vec[1], p), TapSum(vec[2], p)>>} :
    \E o \in {<<RMul(DryWetMix(g[1], temp[1], dry_wet), p.output_gain),
                RMul(DryWetMix(g[2], temp[2], dry_wet), p.output_gain)>>} :
    \E num_samples \in {layout} :
    \E in_amplitude \in {Amplitude(RAdd(in[1], in[2]), num_samples)} :
    \E out_amplitude \in {Amplitude(RAdd(o[1], o[2]), num_samples)} :
        /\ left_vec' = vec[1]
        /\ right_vec' = vec[2]
        /\ frames' = frames + 1
        /\ pushed_l' = Append(pushed_l, s[1])
        /\ pushed_r' = Append(pushed_r, s[2])
        /\ IF editor_open
           THEN /\ in_meter' = MeterUpdate(in_meter, in_amplitude,
                                           out_meter_decay_weight)
                /\ out_meter' = MeterUpdate(out_meter, out_amplitude,
                                            out_meter_decay_weight)
                /\ IF RGt(in_amplitude, in_meter)
                   THEN /\ impulse' = in_amplitude
                        /\ silent' = 0
                   ELSE IF in_amplitude = Zero /\ impulse # NoImpulse
                   THEN /\ impulse' = impulse
                        /\ silent' = silent + 1
                   ELSE /\ impulse' = NoImpulse
                        /\ silent' = 0
           ELSE /\ UNCHANGED <<in_meter, out_meter>>
                /\ impulse' = NoImpulse
                /\ silent' = 0
        /\ last' = [Blank EXCEPT !.op = "process", !.rate = sample_rate,
                                 !.channels = layout, !.raw = raw, !.p = p,
                                 !.gained = in, !.guarded = g, !.shaped = s,
                                 !.tap = temp, !.out = o, !.written = 2,
                                 !.dryWet = dry_wet, !.metered = editor_open,
                                 !.inAmp = IF editor_open THEN in_amplitude ELSE Zero,
                                 !.outAmp = IF editor_open THEN out_amplitude ELSE Zero,
                                 !.prevIn = in_meter, !.prevOut = out_meter,
                                 !.prevWeight = out_meter_decay_weight,
                                 !.weight = out_meter_decay_weight,
                                 !.advanced = [n \in Smoothers |-> AdvanceCount(n)],
                                 !.stores = IF editor_open THEN <<1, 1>> ELSE <<0, 0>>]
        /\ UNCHANGED <<out_meter_decay_weight, dry_wet, editor_open, layout,
                       sample_rate, panicked>>

\* A buffer of one channel: channel_samples.get_mut(1) is None and unwrap()
\* panics on line 717, after the smoothers were advanced and before anything
\* is written.
MonoFrame(raw, p) ==
    /\ panicked' = TRUE
    /\ last' = [Blank EXCEPT !.op = "process", !.rate = sample_rate,
                             !.channels = layout, !.raw = raw, !.p = p,
                             !.written = 0, !.dryWet = dry_wet,
                             !.prevIn = in_meter, !.prevOut = out_meter,
                             !.prevWeight = out_meter_decay_weight,
                             !.weight = out_meter_decay_weight,
                             !.advanced = [n \in Smoothers |-> AdvanceCount(n)]]
    /\ UNCHANGED <<left_vec, right_vec, in_meter, out_meter, out_meter_decay_weight,
                   dry_wet, editor_open, layout, sample_rate, frames, pushed_l,
                   pushed_r, impulse, silent>>

Process(choices, maxFrames) ==
    /\ ~panicked
    /\ layout # 0
    /\ frames < maxFrames
    /\ \E c \in choices :
        IF layout = 2 THEN StereoFrame(c.raw, c.p) ELSE MonoFrame(c.raw, c.p)
    /\ UNCHANGED <<smootherVars, displayVars>>

\* RedrawLoadIn that also clears the meter it has read, as a peak-hold
\* display would
RedrawLoadInClearing ==
    /\ ~panicked
    /\ editor_open
    /\ display_pc = "idle"
    /\ seen' = <<in_meter, seen[2]>>
    /\ in_meter' = Zero
    /\ display_pc' = "in_loaded"
    /\ last' = [Blank EXCEPT !.op = "redraw"]
    /\ UNCHANGED <<left_vec, right_vec, out_meter, out_meter_decay_weight,
                   dry_wet, editor_open, layout, sample_rate, panicked, frames,
                   pushed_l, pushed_r, impulse, silent, smootherVars>>

\* The editor's drawing, first half (line 467): in_meter.load(Relaxed); the
\* value goes to the text and the bar of the input meter and nowhere else.
RedrawLoadIn ==
    /\ ~panicked
    /\ editor_open
    /\ display_pc = "idle"
    /\ seen' = <<in_meter, seen[2]>>
    /\ display_pc' = "in_loaded"
    /\ last' = [Blank EXCEPT !.op = "redraw"]
    /\ UNCHANGED <<left_vec, right_vec, in_meter, out_meter, out_meter_decay_weight,
                   dry_wet, editor_open, layout, sample_rate, panicked, frames,
                   pushed_l, pushed_r, impulse, silent, smootherVars>>

\* The editor's drawing, second half (line 483): out_meter.load(Relaxed).
\* Frames of the audio thread may run between the two loads.
RedrawLoadOut ==
    /\ ~panicked
    /\ display_pc = "in_loaded"
    /\ seen' = <<seen[1], out_meter>>
    /\ display_pc' = "idle"
    /\ last' = [Blank EXCEPT !.op = "redraw"]
    /\ UNCHANGED <<left_vec, right_vec, in_meter, out_meter, out_meter_decay_weight,
                   dry_wet, editor_open, layout, sample_rate, panicked, frames,
                   pushed_l, pushed_r, impulse, silent, smootherVars>>

\* A parameter is written by the host or by a knob of the editor: its smoother
\* is retargeted; dry_wet's plain value is what process reads on line 713.
SetTarget(choices, maxSets) ==
    /\ ~panicked
    /\ sets < maxSets
    /\ \E c \in choices :
        /\ smooth' = [smooth EXCEPT ![c[1]] = SetTargetOf(@, c[1], c[2], sample_rate)]
        /\ since' = [since EXCEPT ![c[1]] = 0]
        /\ dry_wet' = IF c[1] = "dry_wet" THEN smooth'["dry_wet"].target ELSE dry_wet
        /\ last' = [Blank EXCEPT !.op = "set_target", !.name = c[1],
                                 !.requested = c[2]]
    /\ sets' = sets + 1
    /\ UNCHANGED <<left_vec, right_vec, in_meter, out_meter, out_meter_decay_weight,
                   editor_open, layout, sample_rate, panicked, frames, pushed_l,
                   pushed_r, impulse, silent, displayVars>>

\* A frame whose parameter values are the smoothers': each smoother of
\* Advanced moves by one step and the frame uses what next() returned.
ProcessSmoothed(raws, maxFrames) ==
    /\ ~panicked
    /\ layout # 0
    /\ frames < maxFrames
    /\ smooth' = NextAll(smooth)
    /\ since' = [n \in Smoothers |->
                    IF since[n] < NumSteps(SmoothingMs(n), sample_rate)
                    THEN since[n] + 1 ELSE since[n]]
    /\ \E raw \in raws :
        IF layout = 2
        THEN StereoFrame(raw, PipelineValues(smooth'))
        ELSE MonoFrame(raw, PipelineValues(smooth'))
    /\ UNCHANGED <<sets, displayVars>>

(***************************************************************************)
(* Inputs and bounds.                                                      *)
(***************************************************************************)
\* frames per run of Spec
MaxFrames ==
    2

\* frames per run of SpecMeter: an attack and the silence after it
MaxMeterFrames ==
    4

\* frames per run of SpecLong: more than HistoryDepth, so that pushed samples
\* are evicted
MaxLongFrames ==
    9

\* a nonzero sample below the denormal threshold, also after a gain of 2
Tiny ==
    <<1, 256>>

Tenths ==
    [i \in 1..HistoryDepth |-> <<1, 10>>]

\* eight coefficients and eight skews of [-0.5, 0.5], no two neighbours alike
CoeffMixed ==
    << <<1, 2>>, <<1, 4>>, <<-1, 2>>, <<1, 10>>, <<-1, 4>>, <<1, 2>>, <<-1, 10>>, <<1, 4>> >>

SkewMixed ==
    << <<1, 4>>, <<-1, 2>>, <<1, 2>>, <<-1, 4>>, <<1, 10>>, <<1, 4>>, <<1, 2>>, <<-1, 10>> >>

\* all coefficients 0.1, no skew, multiplier 1, unity gains, no push
CfgTenth ==
    [DefaultSmoothed EXCEPT !.coeff = Tenths]

\* everything away from its default
CfgHot ==
    [free_gain |-> <<2, 1>>, output_gain |-> <<2, 1>>, push_amount |-> One,
     multiplier |-> <<2, 1>>, coeff |-> CoeffMixed, skew |-> SkewMixed]

\* taps and output gain away from their defaults, the input left as it is
CfgTaps ==
    [DefaultSmoothed EXCEPT !.output_gain = <<2, 1>>, !.coeff = CoeffMixed,
                            !.skew = SkewMixed]

InputFrames ==
    { <<Zero, Zero>>, <<One, RNeg(One)>>, <<Tiny, <<-1, 2>> >> }

Configs ==
    {CfgTenth, CfgHot}

FrameChoices ==
    {[raw |-> r, p |-> c] : r \in InputFrames, c \in Configs}

\* silence, a loud frame and a quieter one, the parameters at their defaults
MeterChoices ==
    {[raw |-> r, p |-> DefaultSmoothed] :
        r \in { <<Zero, Zero>>, <<One, One>>, << <<1, 2>>, Zero>> }}

\* no taps at all, the multiplier away from 1
CfgZero ==
    [DefaultSmoothed EXCEPT !.multiplier = <<2, 1>>]

\* Three frames as they reach the histories (CfgHot drives and shapes its
\* input, the others pass it on), under five settings of the tap bank.
LongChoices ==
    { [raw |-> <<One, One>>, p |-> CfgTenth],
      [raw |-> <<One, One>>, p |-> CfgZero],
      [raw |-> <<One, RNeg(One)>>, p |-> CfgHot],
      [raw |-> <<Zero, <<1, 2>> >>, p |-> DefaultSmoothed],
      [raw |-> <<Zero, <<1, 2>> >>, p |-> CfgTaps] }

\* AUDIO_IO_LAYOUTS: two channels, or one
Layouts ==
    {2, 1}

\* Sample rates whose decay weights are rationals: 0.25^(10/10) = 1/4 and
\* 0.25^(10/20) = 1/2.
SampleRates ==
    {10, 20}

\* What a host may hand to initialize: the rates above, and 0, which is no
\* sample rate.
HostRates ==
    SampleRates \cup {0}

DryWetValues ==
    {Zero, One}

(***************************************************************************)
(* Specifications.                                                         *)
(***************************************************************************)
Next ==
    \/ Initialize(Layouts, SampleRates)
    \/ Reset
    \/ OpenEditor
    \/ CloseEditor
    \/ SetDryWet(DryWetValues)
    \/ Process(FrameChoices, MaxFrames)

Spec ==
    Init /\ [][Next]_vars

\* initialize under every configuration a host may hand over, and the
\* frames around it.
NextHost ==
    \/ Initialize(Layouts, HostRates)
    \/ Reset
    \/ Process(FrameChoices, MaxFrames)

SpecHost ==
    Init /\ [][NextHost]_vars

\* The meters while the editor is open or closed, at the two valid rates.
NextMeter ==
    \/ Initialize({2}, SampleRates)
    \/ OpenEditor
    \/ CloseEditor
    \/ Process(MeterChoices, MaxMeterFrames)

SpecMeter ==
    Init /\ [][NextMeter]_vars

\* Long runs on a stereo layout, initialized once: the history fills and
\* turns over.
NextLong ==
    \/ layout = 0 /\ Initialize({2}, {20})
    \/ Process(LongChoices, MaxLongFrames)

SpecLong ==
    Init /\ [][NextLong]_vars

\* frames per run of SpecDisplay
MaxDisplayFrames ==
    3

\* targets set per run of SpecSmooth
MaxSets ==
    2

\* frames per run of SpecSmooth: a ramp, and a frame after it
MaxSmoothFrames ==
    3

\* A sample rate at which a ramp has a frame strictly inside it: 30 ms and
\* 50 ms are both covered by 2 frames of 25 ms.
SmoothRates ==
    {40}

\* What the host and the knobs write: for each parameter a value beyond its
\* range, and for dry_wet a value inside it.  Odd taps are driven above the
\* maximum and even ones below the minimum, the skews the other way round.
TargetChoices ==
    {<<CoeffNames[i], IF i % 2 = 1 THEN One ELSE RNeg(One)>> : i \in 1..8}
        \cup {<<SkewNames[i], IF i % 2 = 1 THEN RNeg(One) ELSE One>> : i \in 1..8}
        \cup { <<"free_gain", <<8, 1>> >>, <<"output_gain", <<1, 8>> >>,
               <<"push_amount", <<2, 1>> >>, <<"multiplier", <<20, 1>> >>,
               <<"dry_wet", RNeg(One)>>, <<"dry_wet", <<1, 2>> >> }

SmoothRaws ==
    { <<One, RNeg(One)>> }

\* The parameters written between frames, the frames using the smoothers'
\* values.
NextSmooth ==
    \/ layout = 0 /\ Initialize({2}, SmoothRates)
    \/ SetTarget(TargetChoices, MaxSets)
    \/ ProcessSmoothed(SmoothRaws, MaxSmoothFrames)

SpecSmooth ==
    Init /\ [][NextSmooth]_vars

\* The audio thread's frames and the drawing of the open editor, interleaved.
NextDisplay ==
    \/ layout = 0 /\ Initialize({2}, SampleRates)
    \/ OpenEditor
    \/ CloseEditor
    \/ RedrawLoadIn
    \/ RedrawLoadOut
    \/ Process(MeterChoices, MaxDisplayFrames)

SpecDisplay ==
    Init /\ [][NextDisplay]_vars

(***************************************************************************)
(* The tap bank and the histories (SpecLong).                              *)
(***************************************************************************)
Ones ==
    [i \in 1..HistoryDepth |-> One]

\* sign(i): -1 for i in {2, 4, 6}, +1 for i in {0, 1, 3, 5, 7}
Sign(i) ==
    IF i \in {2, 4, 6} THEN -1 ELSE 1

\* sum over i = from..7 of sign(i) * h[i] * (coeff[i]*m + skew[i]*m*|h[i]|)
RECURSIVE SignedSum(_, _, _)
SignedSum(h, p, from) ==
    IF from > 7 THEN Zero
    ELSE LET x == h[from + 1]
             w == RAdd(RMul(p.coeff[from + 1], p.multiplier),
                       RMul(p.skew[from + 1], RMul(p.multiplier, RAbs(x))))
         IN  RAdd(RMul(RInt(Sign(from)), RMul(x, w)), SignedSum(h, p, from + 1))

\* C1: after a frame, the tap-bank sum of each channel equals the sum over
\* i = 0..7 of sign(i) * h[i] * (coeff[i]*m + skew[i]*m*|h[i]|) over that
\* channel's history, sign(i) = -1 exactly for i in {2, 4, 6}; with all
\* coefficients 0.1, no skew, multiplier 1 and a history of eight 1s it is 0.2.
C1_TapBankSum ==
    (last.op = "process" /\ last.written = 2) =>
        /\ last.tap[1] = SignedSum(left_vec, last.p, 0)
        /\ last.tap[2] = SignedSum(right_vec, last.p, 0)
        /\ (last.p = CfgTenth /\ left_vec = Ones) => last.tap[1] = <<1, 5>>
        /\ (last.p = CfgTenth /\ right_vec = Ones) => last.tap[2] = <<1, 5>>

\* a frame with all coefficients 0.1, no skew and multiplier 1 over a left
\* history of eight 1s
C1_Witness ==
    /\ last.op = "process"
    /\ frames >= HistoryDepth
    /\ last.p = CfgTenth
    /\ left_vec = Ones
    /\ last.tap[1] = <<1, 5>>

\* C2: after k frames each history has exactly 8 entries, and entry i is the
\* shaped sample pushed on frame k-i when k-i >= 1 and 0.0 otherwise.
C2_HistoryOrder ==
    /\ Len(left_vec) = 8
    /\ Len(right_vec) = 8
    /\ Len(pushed_l) = frames
    /\ Len(pushed_r) = frames
    /\ \A i \in 0..7 :
        /\ left_vec[i + 1] = IF frames - i >= 1 THEN pushed_l[frames - i] ELSE Zero
        /\ right_vec[i + 1] = IF frames - i >= 1 THEN pushed_r[frames - i] ELSE Zero

\* more frames than the history is deep: the first sample pushed has been
\* evicted and is no longer in the history
C2_Witness ==
    /\ frames > HistoryDepth
    /\ \A i \in 1..HistoryDepth : left_vec[i] # pushed_l[1]
    /\ left_vec[1] # left_vec[2]

\* C3: with all 8 coefficients and all 8 skews zero, the tap-bank sum of each
\* channel is exactly 0, whatever the history and the multiplier.
C3_ZeroTaps ==
    (last.op = "process" /\ last.written = 2
        /\ last.p.coeff = Zeros /\ last.p.skew = Zeros) =>
            last.tap = <<Zero, Zero>>

\* zero taps under a multiplier of 2, over histories without a zero entry
C3_Witness ==
    /\ last.op = "process"
    /\ last.p.coeff = Zeros
    /\ last.p.skew = Zeros
    /\ last.p.multiplier = <<2, 1>>
    /\ \A i \in 1..HistoryDepth : left_vec[i] # Zero /\ right_vec[i] # Zero
    /\ left_vec[1] # left_vec[2]

(***************************************************************************)
(* The dry/wet mix (Spec).                                                 *)
(***************************************************************************)
\* the raw input sample multiplied by the input gain
GainedInput(i) ==
    RMul(last.raw[i], last.p.free_gain)

\* C4, as claimed: with dry_wet = 0 the sample written to each channel is
\* gained_input * output_gain, for every input sample, zero and the
\* magnitudes below the denormal threshold included.
C4_DryOutputForEveryInput ==
    (last.op = "process" /\ last.written = 2 /\ last.dryWet = Zero) =>
        \A i \in 1..2 : last.out[i] = RMul(GainedInput(i), last.p.output_gain)

\* C4, amended: with dry_wet = 0 the sample written to each channel is
\* gained_input * output_gain when the gained input's magnitude is at least
\* the denormal threshold, and floor * output_gain when it is below it.
C4_DryOutput ==
    (last.op = "process" /\ last.written = 2 /\ last.dryWet = Zero) =>
        \A i \in 1..2 :
            last.out[i] =
                IF RLt(RAbs(GainedInput(i)), DenormThreshold)
                THEN RMul(DenormFloor, last.p.output_gain)
                ELSE RMul(GainedInput(i), last.p.output_gain)

\* dry_wet = 0 in a frame whose tap sums are not zero, the left input below
\* the threshold and the right one a regular sample, both gains at 2
C4_Witness ==
    /\ last.op = "process"
    /\ last.dryWet = Zero
    /\ last.tap[1] # Zero
    /\ last.tap[2] # Zero
    /\ last.raw[1] # Zero
    /\ RLt(RAbs(GainedInput(1)), DenormThreshold)
    /\ ~RLt(RAbs(GainedInput(2)), DenormThreshold)
    /\ last.p.free_gain = <<2, 1>>
    /\ last.p.output_gain = <<2, 1>>

(***************************************************************************)
(* The meters.                                                             *)
(***************************************************************************)
\* x to the power k, k a natural number
RECURSIVE RPow(_, _)
RPow(x, k) ==
    IF k = 0 THEN One ELSE RMul(x, RPow(x, k - 1))

\* a if a > m, and otherwise m*w + a*(1 - w)
MeterRule(a, m, w) ==
    IF RSub(a, m)[1] > 0
    THEN a
    ELSE RAdd(RMul(m, w), RSub(a, RMul(a, w)))

\* C5: a meter update with instantaneous amplitude a and stored value m
\* yields a if a > m and otherwise m*decay_weight + a*(1 - decay_weight), for
\* in_meter and for out_meter alike (Spec).
C5_MeterUpdate ==
    (last.op = "process" /\ last.metered) =>
        /\ in_meter = MeterRule(last.inAmp, last.prevIn, out_meter_decay_weight)
        /\ out_meter = MeterRule(last.outAmp, last.prevOut, out_meter_decay_weight)

\* a release with a nonzero amplitude below the stored value on both meters,
\* under a weight strictly between 0 and 1
C5_Witness ==
    /\ last.op = "process"
    /\ last.metered
    /\ last.inAmp # Zero
    /\ last.outAmp # Zero
    /\ RLt(last.inAmp, last.prevIn)
    /\ RLt(last.outAmp, last.prevOut)
    /\ RLt(Zero, out_meter_decay_weight)
    /\ RLt(out_meter_decay_weight, One)
    /\ in_meter # last.prevIn
    /\ in_meter # last.inAmp

\* C6: initialized for a sample rate and with the editor open, a frame of
\* amplitude A > 0 above the stored value followed by j >= 1 frames of silence
\* leaves in_meter at A * decay_weight^j, which is above 0 and below
\* A * decay_weight^(j-1), its value one frame earlier, with
\* 0 < decay_weight < 1; after the first silent frame it is A * decay_weight
\* (SpecMeter).
C6_ImpulseDecay ==
    (impulse # NoImpulse /\ impulse # Zero /\ silent >= 1 /\ sample_rate > 0) =>
        /\ RLt(Zero, out_meter_decay_weight)
        /\ RLt(out_meter_decay_weight, One)
        /\ in_meter = RMul(impulse, RPow(out_meter_decay_weight, silent))
        /\ RLt(in_meter, RMul(impulse, RPow(out_meter_decay_weight, silent - 1)))
        /\ RLt(Zero, in_meter)
        /\ silent = 1 => in_meter = RMul(impulse, out_meter_decay_weight)
        /\ (last.op = "process" /\ silent = 1) => last.prevIn = impulse
        /\ last.op = "process" => RLt(in_meter, last.prevIn)

\* an attack and three silent frames after it
C6_Witness ==
    /\ impulse # NoImpulse
    /\ impulse # Zero
    /\ silent = 3
    /\ editor_open
    /\ last.op = "process"
    /\ last.metered

\* C7, as claimed: in every reachable state, from construction onward, the
\* value stored in each meter is a non-negative amplitude.
C7_MetersNonNegative ==
    /\ in_meter[1] >= 0
    /\ out_meter[1] >= 0

(***************************************************************************)
(* The host's calls (Spec).                                                *)
(***************************************************************************)
\* C8, as claimed: after initialize (and the reset that follows it), frames
\* having been processed before, both histories are all zeros and the decay
\* weight is the one of the new rate.
C8_ReinitializeResets ==
    (last.op \in {"initialize", "reset"} /\ frames > 0) =>
        /\ left_vec = Zeros
        /\ right_vec = Zeros
        /\ out_meter_decay_weight = DecayWeight(sample_rate)

\* C9, as claimed (SpecHost): initialize returns false for an invalid sample rate or a
\* channel count process cannot handle, leaving the state as it was, and
\* returns true only for a valid configuration.
C9_InitializeRejects ==
    last.op = "initialize" =>
        IF last.rate > 0 /\ last.channels = 2
        THEN last.ret = TRUE
        ELSE /\ last.ret = FALSE
             /\ out_meter_decay_weight = last.prevWeight

\* C10, as claimed: for each advertised layout process completes every frame
\* and writes a sample to every channel of it; no frame ends in a panic.
C10_EveryLayoutProcessed ==
    /\ ~panicked
    /\ last.op = "process" => last.written = last.channels

(***************************************************************************)
(* The parameters and their smoothers (SpecSmooth).                        *)
(***************************************************************************)
\* the range of a parameter as the claims state it: [-0.5, 0.5] for each tap
\* coefficient and skew, [0, 1] for push and dry/wet, [1, 10] for the
\* multiplier, -12 dB to +12 dB for the two gains
StatedRange(name) ==
    CASE name \in {"push_amount", "dry_wet"} -> <<Zero, One>>
      [] name = "multiplier" -> <<One, <<10, 1>> >>
      [] name \in {"free_gain", "output_gain"} -> <<(<<1, 4>>), (<<4, 1>>)>>
      [] OTHER -> <<(<<-1, 2>>), (<<1, 2>>)>>

Within(v, range) ==
    ~RLt(v, range[1]) /\ ~RGt(v, range[2])

\* the value the frame used for a parameter
Used(name) ==
    CASE name = "dry_wet" -> last.dryWet
      [] name = "free_gain" -> last.p.free_gain
      [] name = "output_gain" -> last.p.output_gain
      [] name = "push_amount" -> last.p.push_amount
      [] name = "multiplier" -> last.p.multiplier
      [] \E i \in 1..8 : name = CoeffNames[i] ->
            last.p.coeff[CHOOSE i \in 1..8 : name = CoeffNames[i]]
      [] OTHER -> last.p.skew[CHOOSE i \in 1..8 : name = SkewNames[i]]

\* C11: for every parameter, under any interleaving of set-target calls with
\* in-range and out-of-range values and of frames, the stored target, the
\* smoothed value and the value a frame uses lie within the parameter's
\* declared [min, max].
C11_WithinRange ==
    /\ \A n \in Smoothers :
        /\ Within(smooth[n].target, StatedRange(n))
        /\ Within(smooth[n].current, StatedRange(n))
        /\ last.op = "process" => Within(Used(n), StatedRange(n))
    /\ Within(dry_wet, StatedRange("dry_wet"))

\* a value above the maximum has just been written to a parameter and was
\* stored as the maximum, while another parameter, driven below its minimum,
\* is halfway down its ramp
C11_Witness ==
    /\ last.op = "set_target"
    /\ RGt(last.requested, StatedRange(last.name)[2])
    /\ smooth[last.name].target = StatedRange(last.name)[2]
    /\ frames >= 1
    /\ \E n \in Smoothers \ {last.name} :
        /\ smooth[n].target = StatedRange(n)[1]
        /\ smooth[n].steps_left > 0
        /\ RLt(smooth[n].current, ParamDefault(n))
        /\ RGt(smooth[n].current, smooth[n].target)

\* b lies between a and c, the ends included
Between(a, b, c) ==
    \/ ~RLt(b, a) /\ ~RGt(b, c)
    \/ ~RGt(b, a) /\ ~RLt(b, c)

\* the frames that cover a parameter's time constant at the sample rate
FramesCovering(name) ==
    (SmoothingMs(name) * sample_rate + 999) \div 1000

\* C12: once a parameter's target has been set and as many frames as cover
\* its time constant have passed with no further target, the value the frame
\* obtains for it is the target exactly, on that frame and on every later
\* one; before that each frame's value lies between the smoothed value before
\* the frame and the target, and has moved.
C12_ReachesTarget ==
    [][last'.op = "process" =>
        \A n \in Smoothers :
            /\ since'[n] >= FramesCovering(n) => Used(n)' = smooth'[n].target
            /\ Between(smooth[n].current, Used(n)', smooth'[n].target)
            /\ (n \in Advanced /\ smooth[n].current # smooth[n].target) =>
                    Used(n)' # smooth[n].current]_vars

\* one parameter has been on its new target for the frames of its time
\* constant, another is one frame into its ramp, strictly between where it
\* started and its target
C12_Witness ==
    /\ last.op = "process"
    /\ sets = 2
    /\ \E a \in Advanced :
        /\ since[a] = FramesCovering(a)
        /\ since[a] >= 2
        /\ smooth[a].target # ParamDefault(a)
        /\ Used(a) = smooth[a].target
    /\ \E b \in Advanced :
        /\ since[b] = 1
        /\ Used(b) # ParamDefault(b)
        /\ Used(b) # smooth[b].target
        /\ Between(ParamDefault(b), Used(b), smooth[b].target)

\* C14, as claimed: on every frame each of the 21 smoothers, dry/wet's
\* included, is advanced exactly once, and the value the frame uses for the
\* parameter is the smoother's advanced value.
C14_EverySmootherAdvancedOnce ==
    last.op = "process" =>
        \A n \in Smoothers :
            /\ last.advanced[n] = 1
            /\ Used(n) = smooth[n].current

(***************************************************************************)
(* The order of a frame's steps (Spec, SpecLong).                          *)
(***************************************************************************)
\* the newest entry of a channel's history
Newest(i) ==
    IF i = 1 THEN left_vec[1] ELSE right_vec[1]

\* C13: with push amount 0 the sample pushed into the history is the sample
\* handed to the shaper (the gained sample after the denormal guard); with
\* push amount 1 it is sin(1.2 * x) of that sample: 0.6755 for x = 2,
\* -0.9320 for x = -1, and 1.2 * x for x at the denormal floor (Spec).
C13_ShaperEnds ==
    (last.op = "process" /\ last.written = 2) =>
        \A i \in 1..2 :
            /\ last.p.push_amount = Zero => Newest(i) = last.guarded[i]
            /\ last.p.push_amount = One =>
                /\ Newest(i) = SinDrive(last.guarded[i])
                /\ last.guarded[i] = <<2, 1>> => Newest(i) = <<11, 16>>
                /\ last.guarded[i] = <<-1, 1>> => Newest(i) = <<-15, 16>>
                /\ last.guarded[i] = DenormFloor => Newest(i) = RMul(DenormFloor, Drive)

\* a frame with push amount 1 whose left sample reached the shaper as 2 and
\* the history as sin(2.4), after a frame with push amount 0 whose left
\* sample, 1, went to the history as it was
C13_Witness ==
    /\ last.op = "process"
    /\ frames = 2
    /\ last.p.push_amount = One
    /\ last.guarded[1] = <<2, 1>>
    /\ left_vec[1] = <<11, 16>>
    /\ left_vec[2] = One
    /\ pushed_l[1] = One

\* the history the pushes of a channel leave behind: entry i (from 0) is the
\* sample pushed i frames before the latest frame, 0.0 before the first frame
HistoryOf(pushed) ==
    [i \in 1..HistoryDepth |->
        IF Len(pushed) - (i - 1) >= 1 THEN pushed[Len(pushed) - (i - 1)] ELSE Zero]

\* C15: in a frame the steps follow one another as gain, denormal guard,
\* waveshape, history push, tap sum, dry/wet mix, output gain, meter update:
\* the shaped sample of the frame is in the history when the tap sum is
\* taken, so that the term of index 0 is over this frame's shaped sample and
\* the term of index i over the sample shaped i frames earlier; the mix adds
\* that sum to the guarded sample, the output gain scales the mix, and the
\* meters are fed from the gained input and from the scaled output (Spec).
C15_StepOrder ==
    (last.op = "process" /\ last.written = 2) =>
        /\ \A i \in 1..2 :
            /\ last.gained[i] = RMul(last.raw[i], last.p.free_gain)
            /\ last.guarded[i] = IF RLt(RAbs(last.gained[i]), DenormThreshold)
                                 THEN DenormFloor ELSE last.gained[i]
            /\ last.out[i] = RMul(RAdd(last.guarded[i], RMul(last.tap[i], last.dryWet)),
                                  last.p.output_gain)
        /\ pushed_l[frames] = last.shaped[1]
        /\ pushed_r[frames] = last.shaped[2]
        /\ last.tap[1] = SignedSum(HistoryOf(pushed_l), last.p, 0)
        /\ last.tap[2] = SignedSum(HistoryOf(pushed_r), last.p, 0)
        /\ (last.metered /\ last.gained[1] = last.gained[2]) =>
                last.inAmp = RAbs(last.gained[1])
        /\ (last.metered /\ last.out[1] = last.out[2]) =>
                last.outAmp = RAbs(last.out[1])

\* the second frame of a run, metered, with taps that are not zero and the
\* tap sum mixed in: its shaped sample differs from the one of the frame
\* before, so a sum taken before the push would differ
C15_Witness ==
    /\ last.op = "process"
    /\ frames = 2
    /\ last.metered
    /\ last.dryWet = One
    /\ last.p = CfgHot
    /\ last.shaped[1] # pushed_l[1]
    /\ pushed_l[1] # Zero
    /\ last.tap[1] # Zero
    /\ last.tap[1] # SignedSum(HistoryOf(SubSeq(pushed_l, 1, 1)), last.p, 0)

(***************************************************************************)
(* The meters and the editor (Spec).                                       *)
(***************************************************************************)
\* what a frame pushes and writes for channel i, from the frame's input, its
\* parameter values and the channel's earlier pushes alone
ExpectedGuarded(i) ==
    LET x == RMul(last.raw[i], last.p.free_gain)
    IN  IF RLt(RAbs(x), DenormThreshold) THEN DenormFloor ELSE x

ExpectedShaped(i) ==
    RAdd(RMul(RSub(One, last.p.push_amount), ExpectedGuarded(i)),
         RMul(last.p.push_amount, SinDrive(ExpectedGuarded(i))))

ExpectedOut(i) ==
    LET pushed == IF i = 1 THEN pushed_l ELSE pushed_r
    IN  RMul(RAdd(ExpectedGuarded(i),
                  RMul(SignedSum(HistoryOf(pushed), last.p, 0), last.dryWet)),
             last.p.output_gain)

\* the value both meters are built with
Construction ==
    RInt(MINUS_INFINITY_DB)

\* C16: a frame processed while the editor is not open leaves in_meter and
\* out_meter as they were and stores into neither; open or not, the frame
\* pushes the same shaped samples and writes the same output samples; a frame
\* stores into each meter at most once, and only while the editor is open.
C16_MetersOnlyWhenOpen ==
    (last.op = "process" /\ last.written = 2) =>
        /\ ~editor_open =>
            /\ in_meter = last.prevIn
            /\ out_meter = last.prevOut
            /\ last.stores = <<0, 0>>
        /\ editor_open => last.stores = <<1, 1>>
        /\ \A i \in 1..2 :
            /\ last.shaped[i] = ExpectedShaped(i)
            /\ last.out[i] = ExpectedOut(i)
        /\ left_vec = HistoryOf(pushed_l)
        /\ right_vec = HistoryOf(pushed_r)
        /\ pushed_l[frames] = last.shaped[1]
        /\ pushed_r[frames] = last.shaped[2]

\* the editor was open for a frame and is closed for the next one, whose
\* amplitudes are above what the meters hold: the meters keep the values of
\* the first frame while the frame writes its output and its history
C16_Witness ==
    /\ last.op = "process"
    /\ ~editor_open
    /\ frames = 2
    /\ in_meter # Construction
    /\ out_meter # Construction
    /\ RGt(RAbs(RDivInt(RAdd(last.gained[1], last.gained[2]), 2)), in_meter)
    /\ RGt(RAbs(RDivInt(RAdd(last.out[1], last.out[2]), 2)), out_meter)
    /\ last.out[1] # Zero
    /\ left_vec[1] = last.shaped[1]

\* the mean of the magnitudes of a pair of samples
MeanMagnitude(pair) ==
    RDivInt(RAdd(RAbs(pair[1]), RAbs(pair[2])), 2)

\* C17, as claimed: the amplitude a metered frame feeds to in_meter is
\* (|L| + |R|) / 2 over the gained samples and the one it feeds to out_meter
\* is the same mean over the output samples; it is 0 only when both samples
\* are 0.
C17_MeanOfMagnitudes ==
    (last.op = "process" /\ last.metered) =>
        /\ last.inAmp = MeanMagnitude(last.gained)
        /\ last.outAmp = MeanMagnitude(last.out)
        /\ last.inAmp = Zero => last.gained = <<Zero, Zero>>
        /\ last.outAmp = Zero => last.out = <<Zero, Zero>>

(***************************************************************************)
(* The editor's drawing beside the audio thread (SpecDisplay).             *)
(***************************************************************************)
\* C18: under any interleaving of frames and of the two meter loads of the
\* editor's drawing, a step of the drawing changes neither a meter nor a
\* history nor anything else process reads or writes, so the audio thread
\* computes what it would compute without the drawing; what a load returns is
\* the value the meter holds, and a meter's value changes only in a metered
\* frame of process, to the value that frame's update computes: every value
\* read is the construction-time value or one process stored.
C18_DisplayOnlyReads ==
    [][/\ last'.op = "redraw" =>
            /\ UNCHANGED <<left_vec, right_vec, in_meter, out_meter,
                           out_meter_decay_weight, dry_wet, editor_open, layout,
                           sample_rate, panicked, frames, pushed_l, pushed_r,
                           smooth>>
            /\ \/ seen' = <<in_meter, seen[2]>>
               \/ seen' = <<seen[1], out_meter>>
       /\ last'.op # "redraw" => seen' = seen
       /\ (in_meter' # in_meter \/ out_meter' # out_meter) =>
            /\ last'.op = "process"
            /\ last'.metered
            /\ in_meter' = MeterRule(last'.inAmp, in_meter, out_meter_decay_weight)
            /\ out_meter' = MeterRule(last'.outAmp, out_meter, out_meter_decay_weight)
       /\ (in_meter = Construction /\ seen[1] # NotLoaded) => seen[1] = Construction
      ]_vars

\* a drawing whose two loads had a frame between them: the input value it
\* shows is one process stored earlier and has moved on from, the output
\* value the newest one
C18_Witness ==
    /\ last.op = "redraw"
    /\ display_pc = "idle"
    /\ frames >= 2
    /\ seen[1] # NotLoaded
    /\ seen[1] # Construction
    /\ seen[1] # in_meter
    /\ seen[2] = out_meter
    /\ seen[2] # Zero
    /\ seen[2] # Construction

(***************************************************************************)
(* The two channels (Spec).                                                *)
(***************************************************************************)
\* one channel's frame, from that channel's history and input sample and the
\* frame's parameter values: the sample it pushes, the history it leaves, the
\* sample it writes
ChannelShaped(x, p) ==
    LET g == RMul(x, p.free_gain)
        in == IF RLt(RAbs(g), DenormThreshold) THEN DenormFloor ELSE g
    IN  RAdd(RMul(RSub(One, p.push_amount), in), RMul(p.push_amount, SinDrive(in)))

ChannelHistory(h, x, p) ==
    <<ChannelShaped(x, p)>> \o SubSeq(h, 1, HistoryDepth - 1)

ChannelOut(h, x, p, wet) ==
    LET g == RMul(x, p.free_gain)
        in == IF RLt(RAbs(g), DenormThreshold) THEN DenormFloor ELSE g
    IN  RMul(RAdd(in, RMul(SignedSum(ChannelHistory(h, x, p), p, 0), wet)),
             p.output_gain)

\* C19: in every frame the left history and the left output sample are fixed
\* by the left history before the frame, the left input sample and the
\* parameter values, whatever the right history and the right input sample
\* are, and the same with left and right exchanged: runs that agree on the
\* parameters and on one channel's inputs agree on that channel's history and
\* output on every frame.
C19_ChannelsIndependent ==
    [][(last'.op = "process" /\ last'.written = 2) =>
            /\ left_vec' = ChannelHistory(left_vec, last'.raw[1], last'.p)
            /\ last'.out[1] = ChannelOut(left_vec, last'.raw[1], last'.p, dry_wet)
            /\ right_vec' = ChannelHistory(right_vec, last'.raw[2], last'.p)
            /\ last'.out[2] = ChannelOut(right_vec, last'.raw[2], last'.p, dry_wet)]_vars

\* the second of two frames whose left and right samples differ, under taps
\* that are not zero and with the tap sum mixed in: the two histories and the
\* two outputs differ, and the input meter was fed a blend of both channels
C19_Witness ==
    /\ last.op = "process"
    /\ frames = 2
    /\ last.dryWet = One
    /\ last.p = CfgHot
    /\ last.raw[1] # last.raw[2]
    /\ left_vec[1] # right_vec[1]
    /\ left_vec[2] # right_vec[2]
    /\ last.tap[1] # last.tap[2]
    /\ last.out[1] # last.out[2]
    /\ last.metered
    /\ last.inAmp # RAbs(last.gained[1])
    /\ last.inAmp # RAbs(last.gained[2])

===========================================================================
